---- MODULE Spec2Model ----
(***************************************************************************)
(* The cross-course aggregation engine of the Google Classroom MCP server  *)
(* (GoogleClassroomMCPServer): the tool-call handler, the three            *)
(* cross-course views (getUpcomingAssignments, getMissingAssignments,      *)
(* getGrades) and the per-course calculateGrade, against a remote          *)
(* Classroom service whose requests complete in any order and may fail.    *)
(*                                                                         *)
(* Instants are counted in minutes of local time since 1970-01-01 00:00    *)
(* (the code counts milliseconds; both sides of every comparison are       *)
(* scaled alike).  An optional value (a field that may be missing, null or *)
(* undefined) is a tuple: <<>> when absent, <<v>> when present.  A string   *)
(* that the code builds or compares character by character (the due-date   *)
(* string) is the sequence of its character codes.                         *)
(***************************************************************************)
EXTENDS Integers, Sequences, FiniteSets, TLC

VARIABLES
    classroom,   \* this.classroom: TRUE once setupAuth built the client
    upstream,    \* the remote service's dataset: courses, coursework, submissions
    pc,          \* position of the tool call: idle, listing, fanout, done
    call,        \* the call in flight: its tool, its arguments, the clock it read
    listReq,     \* state of the call's courses.list request
    courses,     \* the resolved course list (coursesResponse.data.courses || [])
    cwReq,       \* per course: state of its courseWork.list request
    subReq,      \* per course: state of its studentSubmissions.list request
    perCourse,   \* per course: <<>> while its task runs, <<rows>> once it returned
    response,    \* what the handler gave the caller: a result or an McpError
    earlier,     \* history: a call delivered before, with its response
    issued       \* history: how many requests of each kind the call has issued

vars ==
    <<classroom, upstream, pc, call, listReq, courses, cwReq, subReq, perCourse, response,
      earlier, issued>>

(***************************************************************************)
(* Bounds of the model.                                                    *)
(***************************************************************************)
MaxItems == 3    \* most assignments (coursework with its submission) a course holds
MaxDays == 8     \* largest lookahead (days) the caller supplies
MaxEarned == 201    \* largest grade of the graded datasets
MaxPossible == 400  \* largest max points of the graded datasets

None == <<>>
Some(v) == <<v>>

(***************************************************************************)
(* Sequences.                                                              *)
(***************************************************************************)
RECURSIVE Flat(_)
\* Array.prototype.flat() of a list of lists.
Flat(ss) == IF ss = <<>> THEN <<>> ELSE Head(ss) \o Flat(Tail(ss))

RECURSIVE SumSeq(_)
SumSeq(s) == IF s = <<>> THEN 0 ELSE Head(s) + SumSeq(Tail(s))

\* The contiguous runs of at most n elements of pool (the empty run included).
Windows(pool, n) ==
    {<<>>} \cup
    {SubSeq(pool, p[1], p[1] + p[2] - 1) :
        p \in {q \in (1..Len(pool)) \X (1..n) : q[1] + q[2] - 1 <= Len(pool)}}

(***************************************************************************)
(* Dates and the due-date string.                                          *)
(***************************************************************************)
\* The code's 24 * 60 * 60 * 1000 ms, in minutes.
DayLength == 24 * 60

\* Days from 1970-01-01 to the civil date y-m-d (proleptic Gregorian).
DaysFromCivil(y, m, d) ==
    LET yy  == IF m <= 2 THEN y - 1 ELSE y
        era == yy \div 400
        yoe == yy - era * 400
        mp  == ((m + 9) % 12)
        doy == (153 * mp + 2) \div 5 + d - 1
        doe == yoe * 365 + yoe \div 4 - yoe \div 100 + doy
    IN  era * 146097 + doe - 719468

\* new Date(year, month - 1, day).getTime(): local midnight of the date.
DueInstant(date) == DaysFromCivil(date.year, date.month, date.day) * DayLength

RECURSIVE Digits(_)
\* String(n) for n >= 0: the character codes of its decimal digits.
Digits(n) == IF n < 10 THEN <<48 + n>> ELSE Digits(n \div 10) \o <<48 + (n % 10)>>

\* String(n).padStart(2, '0')
PadStart2(n) == IF Len(Digits(n)) < 2 THEN <<48>> \o Digits(n) ELSE Digits(n)

\* `${year}-${String(month).padStart(2, '0')}-${String(day).padStart(2, '0')}`
DueString(date) ==
    Digits(date.year) \o <<45>> \o PadStart2(date.month) \o <<45>> \o PadStart2(date.day)

RECURSIVE LocaleCompare(_, _)
\* a.localeCompare(b) on strings of digits and hyphens: -1, 0 or 1.  The
\* collation orders '-' before the digits and the digits by value, as their
\* character codes do.
LocaleCompare(a, b) ==
    IF a = <<>> /\ b = <<>> THEN 0
    ELSE IF a = <<>> THEN -1
    ELSE IF b = <<>> THEN 1
    ELSE IF Head(a) < Head(b) THEN -1
    ELSE IF Head(a) > Head(b) THEN 1
    ELSE LocaleCompare(Tail(a), Tail(b))

RECURSIVE InsertByDue(_, _)
\* r placed after every row that does not compare greater than it.
InsertByDue(sorted, r) ==
    IF sorted = <<>> THEN <<r>>
    ELSE IF LocaleCompare(Head(sorted).dueDate, r.dueDate) > 0
         THEN <<r>> \o sorted
         ELSE <<Head(sorted)>> \o InsertByDue(Tail(sorted), r)

RECURSIVE SortSteps(_, _)
SortSteps(sorted, rest) ==
    IF rest = <<>> THEN sorted
    ELSE SortSteps(InsertByDue(sorted, Head(rest)), Tail(rest))

\* rows.sort((a, b) => a.dueDate.localeCompare(b.dueDate)): a stable sort.
SortByDue(rows) == SortSteps(<<>>, rows)

(***************************************************************************)
(* The remote service's data.  A course's dataset is a run of at most      *)
(* MaxItems assignments of its pool; an assignment is a CourseWork (absent *)
(* when it was deleted upstream), and the student's submission to it       *)
(* (absent when none exists).  The submissions come back in the order of   *)
(* the coursework or in the opposite order.                                *)
(***************************************************************************)
Date(y, m, d) == [year |-> y, month |-> m, day |-> d]

Today == Date(2026, 3, 10)

\* The values Date.now() returns: local midnight of Today, and 10:00 that day.
Instants == {DueInstant(Today), DueInstant(Today) + 10 * 60}

CW(id, title, due, time, points, state) ==
    [id |-> id, title |-> title, dueDate |-> due, dueTime |-> time,
     maxPoints |-> points, state |-> state]

Sub(cwId, state, grade) ==
    [courseWorkId |-> cwId, state |-> state, assignedGrade |-> grade]

Assignment(cw, sub) == [cw |-> cw, sub |-> sub]

EndOfDay == Some([hours |-> 23, minutes |-> 59])

PoolA ==
    << Assignment(Some(CW(1, "Essay", Some(Date(2026, 3, 17)), None, Some(0), "PUBLISHED")),
                  None),
       Assignment(Some(CW(2, "Lab", Some(Date(2026, 3, 18)), EndOfDay, Some(100), "PUBLISHED")),
                  Some(Sub(2, "TURNED_IN", None))),
       Assignment(Some(CW(3, "Quiz", Some(Today), EndOfDay, None, "PUBLISHED")),
                  Some(Sub(3, "RECLAIMED_BY_STUDENT", Some(7)))),
       Assignment(Some(CW(4, "Test", Some(Date(2026, 3, 9)), None, Some(3), "PUBLISHED")),
                  Some(Sub(4, "RETURNED", Some(1)))),
       Assignment(Some(CW(5, "Worksheet", Some(Date(2026, 3, 9)), None, Some(0), "PUBLISHED")),
                  Some(Sub(5, "CREATED", Some(0)))),
       Assignment(Some(CW(6, "Poster", Some(Date(2025, 12, 31)), None, None, "PUBLISHED")),
                  None),
       Assignment(Some(CW(7, "Report", Some(Date(2026, 3, 8)), None, Some(20), "PUBLISHED")),
                  Some(Sub(7, "TURNED_IN", None))),
       Assignment(None,
                  Some(Sub(9, "RETURNED", Some(5)))),
       Assignment(Some(CW(8, "Reading", None, None, Some(0), "PUBLISHED")),
                  Some(Sub(8, "RETURNED", Some(2)))),
       Assignment(Some(CW(10, "Bonus", None, None, Some(10), "PUBLISHED")),
                  Some(Sub(10, "RETURNED", Some(12)))),
       Assignment(Some(CW(11, "Outline", Some(Date(2026, 3, 12)), None, Some(10), "DRAFT")),
                  None) >>

PoolB ==
    << Assignment(Some(CW(21, "Homework", Some(Date(2026, 3, 12)), None, Some(20), "PUBLISHED")),
                  Some(Sub(21, "RETURNED", Some(18)))),
       Assignment(Some(CW(22, "Project", Some(Date(2026, 3, 9)), None, Some(50), "PUBLISHED")),
                  None) >>

CourseIds == <<"A", "B">>

CourseName(id) == IF id = "A" THEN "Algebra" ELSE "Biology"

Pool(id) == IF id = "A" THEN PoolA ELSE PoolB

Reverse(s) == [i \in 1..Len(s) |-> s[Len(s) + 1 - i]]

WorkOf(run) == Flat([i \in 1..Len(run) |-> run[i].cw])

SubsOf(run) == Flat([i \in 1..Len(run) |-> run[i].sub])

CourseData(id) ==
    {[work |-> WorkOf(run), subs |-> IF rev THEN Reverse(SubsOf(run)) ELSE SubsOf(run)] :
        run \in Windows(Pool(id), MaxItems), rev \in BOOLEAN}

CourseStates == {"ACTIVE", "ARCHIVED"}

Upstreams ==
    {[courses |-> [i \in 1..Len(CourseIds) |->
                      [id |-> CourseIds[i], name |-> CourseName(CourseIds[i]),
                       courseState |-> st[i]]],
      work    |-> [c \in {"A", "B"} |-> IF c = "A" THEN a.work ELSE b.work],
      subs    |-> [c \in {"A", "B"} |-> IF c = "A" THEN a.subs ELSE b.subs]] :
        st \in [1..Len(CourseIds) -> CourseStates],
        a \in CourseData("A"), b \in CourseData("B")}

\* The graded datasets: course A holds one coursework with max points
\* `possible` and its RETURNED submission graded `earned`, course B nothing.
GradedUpstream(earned, possible) ==
    [courses |-> [i \in 1..Len(CourseIds) |->
                     [id |-> CourseIds[i], name |-> CourseName(CourseIds[i]),
                      courseState |-> "ACTIVE"]],
     work    |-> [c \in {"A", "B"} |->
                     IF c = "A"
                     THEN <<CW(1, "Essay", None, None, Some(possible), "PUBLISHED")>>
                     ELSE <<>>],
     subs    |-> [c \in {"A", "B"} |->
                     IF c = "A" THEN <<Sub(1, "RETURNED", Some(earned))>> ELSE <<>>]]

\* Due dates of the dated datasets: all before Today, in years of three and
\* of four digits, in months and days of one and of two digits.
DueDates ==
    {Date(999, 12, 31), Date(1000, 1, 1), Date(2025, 9, 5), Date(2025, 10, 4),
     Date(2026, 3, 9)}

\* The dated datasets: course A holds two coursework items without
\* submission, each with a due date and with or without a due time.
DatedUpstreams ==
    {[courses |-> [i \in 1..Len(CourseIds) |->
                      [id |-> CourseIds[i], name |-> CourseName(CourseIds[i]),
                       courseState |-> st[i]]],
      work    |-> [c \in {"A", "B"} |->
                      IF c = "A"
                      THEN <<CW(1, "Essay", Some(d[1]), t[1], Some(10), "PUBLISHED"),
                             CW(2, "Lab", Some(d[2]), t[2], Some(10), "PUBLISHED")>>
                      ELSE WorkOf(PoolB)],
      subs    |-> [c \in {"A", "B"} |-> IF c = "A" THEN <<>> ELSE SubsOf(PoolB)]] :
        st \in [1..Len(CourseIds) -> CourseStates],
        d \in DueDates \X DueDates,
        t \in {None, EndOfDay} \X {None, EndOfDay}}

\* Two coursework items that share the identifier 1.
Twins ==
    << CW(1, "Essay", Some(Date(2026, 3, 9)), None, Some(10), "PUBLISHED"),
       CW(1, "Essay (revised)", Some(Date(2026, 3, 6)), None, Some(20), "PUBLISHED") >>

\* The datasets with a shared identifier: course A holds the twins in either
\* order, and no submission, an unsubmitted one or a graded one to their
\* identifier; course B holds its pool.
TwinUpstreams ==
    {[courses |-> [i \in 1..Len(CourseIds) |->
                      [id |-> CourseIds[i], name |-> CourseName(CourseIds[i]),
                       courseState |-> st[i]]],
      work    |-> [c \in {"A", "B"} |-> IF c = "A" THEN twins ELSE WorkOf(PoolB)],
      subs    |-> [c \in {"A", "B"} |-> IF c = "A" THEN subs ELSE SubsOf(PoolB)]] :
        st \in [1..Len(CourseIds) -> CourseStates],
        twins \in {Twins, Reverse(Twins)},
        subs \in {<<>>, <<Sub(1, "CREATED", None)>>, <<Sub(1, "RETURNED", Some(8))>>}}

\* The max points of the graded datasets: every value up to 20, and the
\* multiples of 50.
PointScales == {p \in 1..MaxPossible : p <= 20 \/ p % 50 = 0}

GradedUpstreams ==
    {GradedUpstream(earned, possible) : earned \in 0..MaxEarned, possible \in PointScales}

(***************************************************************************)
(* The remote read operations, as the service answers them when they       *)
(* succeed.                                                                *)
(***************************************************************************)
\* The listing that takes the caller's courseStates argument, when there is
\* one, for the filter.
ListCoursesAsAsked(courseStates) ==
    SelectSeq(upstream.courses,
              LAMBDA c : c.courseState \in (IF call.courseStates = None THEN courseStates
                                            ELSE call.courseStates[1]))

\* classroom.courses.list({ courseStates })
ListCourses(courseStates) ==
    SelectSeq(upstream.courses, LAMBDA c : c.courseState \in courseStates)

\* classroom.courses.courseWork.list({ courseId, courseWorkStates })
ListCourseWork(courseId, courseWorkStates) ==
    SelectSeq(upstream.work[courseId], LAMBDA cw : cw.state \in courseWorkStates)

\* classroom.courses.courseWork.studentSubmissions.list(
\*     { courseId, courseWorkId: '-', userId: 'me' })
ListSubmissions(courseId) == upstream.subs[courseId]

\* classroom.courses.courseWork.get({ courseId, id }): the coursework with
\* the identifier, whatever its state.
GetCourseWork(courseId, id) ==
    SelectSeq(upstream.work[courseId], LAMBDA cw : cw.id = id)[1]

\* classroom.courses.courseWork.studentSubmissions.list(
\*     { courseId, courseWorkId, userId: 'me' })
ListSubmissionsTo(courseId, courseWorkId) ==
    SelectSeq(upstream.subs[courseId], LAMBDA sub : sub.courseWorkId = courseWorkId)

(***************************************************************************)
(* The per-course bodies of the views: what a course's task returns once   *)
(* its requests succeeded.                                                 *)
(***************************************************************************)
DefaultDays == 7

\* The result of getSubmissionFeedback: the coursework and the first of the
\* submissions to it, or null when there is none.
FeedbackOf(cw, subs) ==
    [assignmentTitle |-> cw.title,
     maxPoints       |-> cw.maxPoints,
     submission      |-> IF subs = <<>> THEN None
                         ELSE Some([state         |-> subs[1].state,
                                    assignedGrade |-> subs[1].assignedGrade])]

\* The cutoff with days = args.days || 7: a window of 0 days becomes 7.
CutoffOrDefault(now, days) ==
    now + (IF days = None \/ days = Some(0) THEN DefaultDays ELSE days[1]) * DayLength

\* const cutoff = now + days * 24 * 60 * 60 * 1000, with days = args.days ?? 7
Cutoff(now, days) ==
    now + (IF days = None THEN DefaultDays ELSE days[1]) * DayLength

\* The filter without its upper end.
IsUpcomingUnbounded(cw, now, cutoff) ==
    /\ cw.dueDate # None
    /\ DueInstant(cw.dueDate[1]) >= now

\* The filter of getUpcomingAssignments.
\* The filter on calendar days: the day of the due date is not before the
\* day of now.
IsUpcomingByCalendarDay(cw, now, cutoff) ==
    /\ cw.dueDate # None
    /\ DueInstant(cw.dueDate[1]) >= (now \div DayLength) * DayLength
    /\ DueInstant(cw.dueDate[1]) <= cutoff

IsUpcoming(cw, now, cutoff) ==
    /\ cw.dueDate # None
    /\ DueInstant(cw.dueDate[1]) >= now
    /\ DueInstant(cw.dueDate[1]) <= cutoff

UpcomingRow(course, cw) ==
    [courseId |-> course.id, courseName |-> course.name, assignmentId |-> cw.id,
     title |-> cw.title, dueDate |-> DueString(cw.dueDate[1]),
     maxPoints |-> cw.maxPoints]

UpcomingOfCourse(course, items, now, cutoff) ==
    LET kept == SelectSeq(items, LAMBDA cw : IsUpcoming(cw, now, cutoff))
    IN  [i \in 1..Len(kept) |-> UpcomingRow(course, kept[i])]

\* submissionMap[id], the map the loop "for (const sub of ...)
\* submissionMap[sub.courseWorkId] = sub" built: <<>> when no submission has
\* the key, else the last one that has it.
SubmissionOf(subs, id) ==
    LET hits == {i \in 1..Len(subs) : subs[i].courseWorkId = id}
    IN  IF hits = {} THEN None
        ELSE Some(subs[CHOOSE i \in hits : \A j \in hits : j <= i])

\* The map in which the first item with an identifier stays.
CourseWorkOfFirst(items, id) ==
    LET hits == {i \in 1..Len(items) : items[i].id = id}
    IN  IF hits = {} THEN None
        ELSE Some(items[CHOOSE i \in hits : \A j \in hits : i <= j])

\* courseworkMap[id], built alike by "courseworkMap[cw.id] = cw".
CourseWorkOf(items, id) ==
    LET hits == {i \in 1..Len(items) : items[i].id = id}
    IN  IF hits = {} THEN None
        ELSE Some(items[CHOOSE i \in hits : \A j \in hits : j <= i])

\* The filter that takes only TURNED_IN for submitted.
IsMissingUnlessTurnedIn(cw, subs, now) ==
    /\ cw.dueDate # None
    /\ ~ (DueInstant(cw.dueDate[1]) >= now)
    /\ LET sub == SubmissionOf(subs, cw.id)
       IN  \/ sub = None
           \/ sub[1].state # "TURNED_IN"

\* The filter of getMissingAssignments.
IsMissing(cw, subs, now) ==
    /\ cw.dueDate # None
    /\ ~ (DueInstant(cw.dueDate[1]) >= now)
    /\ LET sub == SubmissionOf(subs, cw.id)
       IN  \/ sub = None
           \/ sub[1].state # "TURNED_IN" /\ sub[1].state # "RETURNED"

\* The row that never looks its submission up.
MissingRowNotStarted(course, cw, subs) ==
    [courseId |-> course.id, courseName |-> course.name, assignmentId |-> cw.id,
     title |-> cw.title, dueDate |-> DueString(cw.dueDate[1]),
     maxPoints |-> cw.maxPoints, submissionState |-> "NOT_STARTED"]

MissingRow(course, cw, subs) ==
    LET sub == SubmissionOf(subs, cw.id)
    IN  [courseId |-> course.id, courseName |-> course.name, assignmentId |-> cw.id,
         title |-> cw.title, dueDate |-> DueString(cw.dueDate[1]),
         maxPoints |-> cw.maxPoints,
         submissionState |-> IF sub = None THEN "NOT_STARTED" ELSE sub[1].state]

MissingOfCourse(course, items, subs, now) ==
    LET kept == SelectSeq(items, LAMBDA cw : IsMissing(cw, subs, now))
    IN  [i \in 1..Len(kept) |-> MissingRow(course, kept[i], subs)]

\* The row made with || where the code has ??: a grade or max points of 0
\* comes out as null.
GradeRowZeroIsNull(course, items, sub) ==
    LET cw == CourseWorkOf(items, sub.courseWorkId)
    IN  [courseId |-> course.id, courseName |-> course.name,
         assignmentId |-> sub.courseWorkId,
         title |-> IF cw = None THEN None ELSE Some(cw[1].title),
         state |-> sub.state,
         assignedGrade |-> IF sub.assignedGrade = Some(0) THEN None ELSE sub.assignedGrade,
         maxPoints |-> IF cw = None \/ cw[1].maxPoints = Some(0) THEN None
                       ELSE cw[1].maxPoints,
         dueDate |-> IF cw = None \/ cw[1].dueDate = None THEN None
                     ELSE Some(DueString(cw[1].dueDate[1]))]

GradeRow(course, items, sub) ==
    LET cw == CourseWorkOf(items, sub.courseWorkId)
    IN  [courseId |-> course.id, courseName |-> course.name,
         assignmentId |-> sub.courseWorkId,
         title |-> IF cw = None THEN None ELSE Some(cw[1].title),
         state |-> sub.state,
         assignedGrade |-> sub.assignedGrade,
         maxPoints |-> IF cw = None THEN None ELSE cw[1].maxPoints,
         dueDate |-> IF cw = None \/ cw[1].dueDate = None THEN None
                     ELSE Some(DueString(cw[1].dueDate[1]))]

\* The listing with a row per coursework, its submission joined when one exists.
GradesPerCourseWork(course, items, subs) ==
    [i \in 1..Len(items) |->
        LET sub == SubmissionOf(subs, items[i].id)
        IN  [courseId |-> course.id, courseName |-> course.name,
             assignmentId |-> items[i].id, title |-> Some(items[i].title),
             state |-> IF sub = None THEN None ELSE Some(sub[1].state),
             assignedGrade |-> IF sub = None THEN None ELSE sub[1].assignedGrade,
             maxPoints |-> items[i].maxPoints,
             dueDate |-> IF items[i].dueDate = None THEN None
                         ELSE Some(DueString(items[i].dueDate[1]))]]

\* The listing without the rows of submissions to unlisted coursework.
GradesOfListedWork(course, items, subs) ==
    LET kept == SelectSeq(subs, LAMBDA sub : CourseWorkOf(items, sub.courseWorkId) # None)
    IN  [i \in 1..Len(kept) |-> GradeRow(course, items, kept[i])]

GradesOfCourse(course, items, subs) ==
    [i \in 1..Len(subs) |-> GradeRow(course, items, subs[i])]

\* A row of getAssignments.
AssignmentRow(cw) ==
    [id |-> cw.id, title |-> cw.title, maxPoints |-> cw.maxPoints,
     dueDate |-> IF cw.dueDate = None THEN None ELSE Some(DueString(cw.dueDate[1]))]

\* getAssignments: a row per coursework of the course, in their order.
AssignmentsOfCourse(items) == [i \in 1..Len(items) |-> AssignmentRow(items[i])]

(***************************************************************************)
(* The arithmetic of calculateGrade's percentages.  A JavaScript number is *)
(* an IEEE 754 double: zero, or 53 significant bits (most significant      *)
(* first, the first one set) and the exponent of the first bit; its value  *)
(* is bits * 2^(exp - 52).  Each operation computes the exact result and   *)
(* rounds it to the nearest double, ties to the even one.                  *)
(***************************************************************************)
MantissaBits == 53

Zero == [exp |-> 0, bits |-> <<>>]

RECURSIVE IncBits(_)
\* The bits plus one, in the same width (all ones wrap to all zeros).
IncBits(b) ==
    IF b = <<>> THEN <<>>
    ELSE IF b[Len(b)] = 0 THEN SubSeq(b, 1, Len(b) - 1) \o <<1>>
    ELSE IncBits(SubSeq(b, 1, Len(b) - 1)) \o <<0>>

\* The double nearest to exact * 2^(exp - Len(exact) + 1) (plus a non-zero
\* remainder below the last bit when sticky), exact having at least
\* MantissaBits + 1 bits, the first one set.
RoundToDouble(exp, exact, sticky) ==
    LET kept  == SubSeq(exact, 1, MantissaBits)
        guard == exact[MantissaBits + 1]
        rest  == sticky \/ \E i \in (MantissaBits + 2)..Len(exact) : exact[i] = 1
        up    == guard = 1 /\ (rest \/ kept[MantissaBits] = 1)
        next  == IncBits(kept)
    IN  IF ~ up THEN [exp |-> exp, bits |-> kept]
        ELSE IF next[1] = 1 THEN [exp |-> exp, bits |-> next]
        ELSE [exp |-> exp + 1, bits |-> <<1>> \o SubSeq(next, 2, MantissaBits)]

RECURSIVE Quotient(_, _, _)
\* The next n bits of the binary expansion of r / den (r < den), followed by
\* the remainder.
Quotient(r, den, n) ==
    IF n = 0 THEN <<r>>
    ELSE IF 2 * r >= den THEN <<1>> \o Quotient(2 * r - den, den, n - 1)
    ELSE <<0>> \o Quotient(2 * r, den, n - 1)

RECURSIVE Normalised(_, _, _)
\* a / b = (num / den) * 2^exp with den <= num < 2 * den.
Normalised(a, b, exp) ==
    IF a < b THEN Normalised(2 * a, b, exp - 1)
    ELSE IF a >= 2 * b THEN Normalised(a, 2 * b, exp + 1)
    ELSE [num |-> a, den |-> b, exp |-> exp]

\* a / b for integers a >= 0 and b > 0.
DoubleDivide(a, b) ==
    IF a = 0 THEN Zero
    ELSE LET n == Normalised(a, b, 0)
             q == Quotient(n.num - n.den, n.den, MantissaBits)
         IN  RoundToDouble(n.exp, <<1>> \o SubSeq(q, 1, MantissaBits),
                           q[MantissaBits + 1] # 0)

RECURSIVE TimesBits(_, _, _)
\* The bits of lsb * n + carry, least significant first (as lsb is).
TimesBits(lsb, n, carry) ==
    IF lsb = <<>>
    THEN IF carry = 0 THEN <<>> ELSE <<carry % 2>> \o TimesBits(lsb, n, carry \div 2)
    ELSE LET v == Head(lsb) * n + carry
         IN  <<v % 2>> \o TimesBits(Tail(lsb), n, v \div 2)

\* x * n for a double x and an integer n >= 2.
DoubleTimes(x, n) ==
    IF x = Zero THEN Zero
    ELSE LET product == Reverse(TimesBits(Reverse(x.bits), n, 0))
         IN  RoundToDouble(x.exp + Len(product) - MantissaBits, product, FALSE)

RECURSIVE BitsValue(_)
BitsValue(b) == IF b = <<>> THEN 0 ELSE 2 * BitsValue(SubSeq(b, 1, Len(b) - 1)) + b[Len(b)]

\* Math.round(x), 0 <= x < 2^31: the nearest integer, halves upwards.
MathRound(x) ==
    IF x = Zero \/ x.exp < -1 THEN 0
    ELSE BitsValue(SubSeq(x.bits, 1, x.exp + 1)) + x.bits[x.exp + 2]

\* The percentage that is 0 where there is nothing to divide by.
PercentageOrZero(earned, possible) ==
    IF possible > 0 THEN Some(MathRound(DoubleTimes(DoubleDivide(earned, possible), 1000)))
    ELSE Some(0)

\* Math.round((earned / possible) * 1000) / 10, in tenths of a percent.
Percentage(earned, possible) ==
    IF possible > 0 THEN Some(MathRound(DoubleTimes(DoubleDivide(earned, possible), 1000)))
    ELSE None

\* The guard that also skips a coursework worth no points.
IsGradedForPoints(items, sub) ==
    LET cw == CourseWorkOf(items, sub.courseWorkId)
    IN  ~ (cw = None \/ cw[1].maxPoints = None \/ sub.assignedGrade = None
           \/ cw[1].maxPoints[1] = 0)

\* The guard of calculateGrade's loop: the submission is counted.
IsGraded(items, sub) ==
    LET cw == CourseWorkOf(items, sub.courseWorkId)
    IN  ~ (cw = None \/ cw[1].maxPoints = None \/ sub.assignedGrade = None)

BreakdownEntry(items, sub) ==
    LET cw == CourseWorkOf(items, sub.courseWorkId)[1]
    IN  [assignmentId |-> sub.courseWorkId, title |-> Some(cw.title),
         earned |-> sub.assignedGrade[1], possible |-> cw.maxPoints[1],
         percentage |-> Percentage(sub.assignedGrade[1], cw.maxPoints[1])]

RECURSIVE GradeLoop(_, _, _)
\* The loop of calculateGrade over the submissions left, from the totals so far.
GradeLoop(items, rest, acc) ==
    IF rest = <<>> THEN acc
    ELSE IF ~ IsGraded(items, Head(rest)) THEN GradeLoop(items, Tail(rest), acc)
    ELSE LET e == BreakdownEntry(items, Head(rest))
         IN  GradeLoop(items, Tail(rest),
                 [totalEarned   |-> acc.totalEarned + e.earned,
                  totalPossible |-> acc.totalPossible + e.possible,
                  breakdown     |-> Append(acc.breakdown, e)])

\* The calculation that counts every submission as graded.
GradeOfCourseCountingAll(courseId, items, subs) ==
    LET acc == GradeLoop(items, subs,
                   [totalEarned |-> 0, totalPossible |-> 0, breakdown |-> <<>>])
    IN  [courseId |-> courseId,
         totalEarned |-> acc.totalEarned,
         totalPossible |-> acc.totalPossible,
         overallPercentage |-> Percentage(acc.totalEarned, acc.totalPossible),
         gradedAssignments |-> Len(subs),
         breakdown |-> acc.breakdown]

GradeOfCourse(courseId, items, subs) ==
    LET acc == GradeLoop(items, subs,
                   [totalEarned |-> 0, totalPossible |-> 0, breakdown |-> <<>>])
    IN  [courseId |-> courseId,
         totalEarned |-> acc.totalEarned,
         totalPossible |-> acc.totalPossible,
         overallPercentage |-> Percentage(acc.totalEarned, acc.totalPossible),
         gradedAssignments |-> Len(acc.breakdown),
         breakdown |-> acc.breakdown]

(***************************************************************************)
(* The server.                                                             *)
(***************************************************************************)
Aggregations == {"get_upcoming_assignments", "get_missing_assignments", "get_grades"}

Tools ==
    Aggregations \cup {"calculate_grade", "get_assignments", "get_submission_feedback"}

\* The names a caller may ask for: the tools, and a name that is no tool's.
ToolNames == Tools \cup {"no_such_tool"}

\* The days argument: omitted, or a non-negative integer.
DaysArgs == {None} \cup {Some(n) : n \in 0..MaxDays}

AllIds == {CourseIds[i] : i \in 1..Len(CourseIds)}

\* A courseStates argument, which no cross-course view declares: omitted, or
\* a list of course states the caller asks for.
StatesArgs == {None, Some({"ARCHIVED"})}

NoCall ==
    [tool |-> "none", days |-> None, courseStates |-> None, courseId |-> None,
     courseWorkId |-> None, now |-> 0]

NoRequests == [c \in AllIds |-> "none"]

NoRows == [c \in AllIds |-> None]

NoResponse == [kind |-> "none"]

NoneIssued == [list |-> 0, work |-> [c \in AllIds |-> 0], subs |-> [c \in AllIds |-> 0]]

\* return { content: [{ type: 'text', text: JSON.stringify(value) }] }
Ok(value) == [kind |-> "ok", value |-> value]

\* throw new McpError(code, message)
McpError(code, message) == [kind |-> "error", code |-> code, message |-> message]

\* The handler's catch: whatever the tool threw reaches the caller as this.
ToolFailed == McpError("InternalError", "Tool execution failed")

NotInitialized ==
    McpError("InternalError",
             "Google Classroom API not initialized. Please run: npm run setup-auth")

\* The course filter of the three cross-course views.
ActiveOnly == {"ACTIVE"}

\* The coursework filter of every coursework listing of the views.
PublishedOnly == {"PUBLISHED"}

Resolved == {courses[i].id : i \in 1..Len(courses)}

\* The upcoming task that leaves out the coursework the student has handed
\* in, as the missing view does.
TaskRowsNotHandedIn(course) ==
    LET items == ListCourseWork(course.id, PublishedOnly)
        subs  == ListSubmissions(course.id)
        open  == SelectSeq(items, LAMBDA cw :
                     LET sub == SubmissionOf(subs, cw.id)
                     IN  sub = None \/ sub[1].state \notin {"TURNED_IN", "RETURNED"})
    IN  CASE call.tool = "get_upcoming_assignments" ->
                 UpcomingOfCourse(course, open, call.now, Cutoff(call.now, call.days))
          [] call.tool = "get_missing_assignments" ->
                 MissingOfCourse(course, items, subs, call.now)
          [] call.tool = "get_grades" ->
                 GradesOfCourse(course, items, subs)

\* What the task of `course` returns when its requests succeeded.
TaskRows(course) ==
    LET items == ListCourseWork(course.id, PublishedOnly)
        subs  == ListSubmissions(course.id)
    IN  CASE call.tool = "get_upcoming_assignments" ->
                 UpcomingOfCourse(course, items, call.now, Cutoff(call.now, call.days))
          [] call.tool = "get_missing_assignments" ->
                 MissingOfCourse(course, items, subs, call.now)
          [] call.tool = "get_grades" ->
                 GradesOfCourse(course, items, subs)

\* The merge without its sort.
MergeUnsorted(tool, lists) == Flat(lists)

\* The merge into a list that outlives the call: the rows of a call of the
\* same view made before are still in it.
MergeOntoEarlier(tool, lists) ==
    LET kept == IF earlier # None /\ earlier[1].call.tool = tool
                   /\ earlier[1].response.kind = "ok"
                THEN earlier[1].response.value ELSE <<>>
    IN  kept \o Flat(lists)

\* What follows the outer Promise.all: perCourse.flat(), sorted by due date
\* in the upcoming and missing views.
Merge(tool, lists) ==
    IF tool = "get_grades" THEN Flat(lists) ELSE SortByDue(Flat(lists))

\* The view that returns the rows of the first task to return.
TaskReturnsAlone(c, rows) ==
    /\ perCourse' = [perCourse EXCEPT ![c] = Some(rows)]
    /\ pc' = "done"
    /\ response' = Ok(Merge(call.tool, <<rows>>))

\* The view that collects the rows in the order in which the tasks return:
\* those of the last task to return come last.
TaskReturnsInCompletionOrder(c, rows) ==
    LET after == [perCourse EXCEPT ![c] = Some(rows)]
        first == SelectSeq(courses, LAMBDA k : k.id # c)
    IN  /\ perCourse' = after
        /\ IF \A k \in Resolved : after[k] # None
           THEN /\ pc' = "done"
                /\ response' = Ok(Merge(call.tool,
                                   [i \in 1..Len(first) |-> after[first[i].id][1]]
                                       \o <<rows>>))
           ELSE UNCHANGED <<pc, response>>

\* The task of course c returns rows.  When it is the last one to return,
\* the outer Promise.all resolves and the view returns its result.
TaskReturns(c, rows) ==
    LET after == [perCourse EXCEPT ![c] = Some(rows)]
    IN  /\ perCourse' = after
        /\ IF \A k \in Resolved : after[k] # None
           THEN /\ pc' = "done"
                /\ response' = Ok(Merge(call.tool,
                                   [i \in 1..Len(courses) |-> after[courses[i].id][1]]))
           ELSE UNCHANGED <<pc, response>>

\* The tool that answers a failure as the tasks of the cross-course views
\* do, with an empty result.
ToolReturnsEmpty ==
    /\ pc' = "done"
    /\ response' = Ok(<<>>)
    /\ UNCHANGED perCourse

\* An error thrown by the tool outside any task: the handler's catch.
ToolThrows ==
    /\ pc' = "done"
    /\ response' = ToolFailed
    /\ UNCHANGED perCourse

\* A task without its catch: the rejection leaves the view.
TaskRethrows(c) == ToolThrows

\* The catch of a course's task: catch { return []; }
TaskCatches(c) == TaskReturns(c, <<>>)

CourseById(c) == courses[CHOOSE i \in 1..Len(courses) : courses[i].id = c]

Init ==
    /\ classroom \in BOOLEAN
    /\ upstream \in Upstreams
    /\ pc = "idle"
    /\ call = NoCall
    /\ listReq = "none"
    /\ courses = <<>>
    /\ cwReq = NoRequests
    /\ subReq = NoRequests
    /\ perCourse = NoRows
    /\ response = NoResponse
    /\ earlier = None
    /\ issued = NoneIssued

\* The handler without its guard: the tool runs, reading this.classroom
\* throws, and the handler's catch wraps the error.
CallUnguarded ==
    /\ pc = "idle"
    /\ ~ classroom
    /\ \E tool \in ToolNames, c \in {None} \cup {Some(id) : id \in AllIds} :
           call' = [NoCall EXCEPT !.tool = tool, !.courseId = c]
    /\ pc' = "done"
    /\ response' = ToolFailed
    /\ UNCHANGED <<classroom, upstream, earlier, issued, listReq, courses, cwReq, subReq, perCourse>>

\* A tool call while this.classroom is null, whatever the name and the
\* arguments of the request.
CallUninitialized ==
    /\ pc = "idle"
    /\ ~ classroom
    /\ \E tool \in ToolNames, c \in {None} \cup {Some(id) : id \in AllIds} :
           call' = [NoCall EXCEPT !.tool = tool, !.courseId = c]
    /\ pc' = "done"
    /\ response' = NotInitialized
    /\ UNCHANGED <<classroom, upstream, earlier, issued, listReq, courses, cwReq, subReq, perCourse>>

\* The handler's catch applied to an error thrown inside its try: whatever
\* the error, an McpError included, the caller gets a new InternalError
\* whose message is "Tool execution failed: " and the message of the error.
Caught(error) == ToolFailed

\* A call of a name that no case of the switch matches: the default case
\* throws MethodNotFound inside the try, and the catch takes it.
CallUnknown ==
    /\ pc = "idle"
    /\ classroom
    /\ \E c \in {None} \cup {Some(id) : id \in AllIds} :
           call' = [NoCall EXCEPT !.tool = "no_such_tool", !.courseId = c]
    /\ pc' = "done"
    /\ response' = Caught(McpError("MethodNotFound", "Unknown tool"))
    /\ UNCHANGED <<classroom, upstream, earlier, issued, listReq, courses, cwReq, subReq, perCourse>>

\* get_upcoming_assignments: reads the clock and asks for the course list.
\* The handler passes the caller's arguments on as they are.
CallUpcoming ==
    /\ pc = "idle"
    /\ classroom
    /\ \E days \in DaysArgs, states \in StatesArgs, now \in Instants :
           call' = [tool |-> "get_upcoming_assignments", days |-> days,
                    courseStates |-> states, courseId |-> None,
                    courseWorkId |-> None, now |-> now]
    /\ pc' = "listing"
    /\ listReq' = "pending"
    /\ issued' = [issued EXCEPT !.list = @ + 1]
    /\ UNCHANGED <<classroom, upstream, earlier, courses, cwReq, subReq, perCourse, response>>

\* get_missing_assignments: reads the clock and asks for the course list.
\* The handler passes none of the caller's arguments on.
CallMissing ==
    /\ pc = "idle"
    /\ classroom
    /\ \E now \in Instants :
           call' = [tool |-> "get_missing_assignments", days |-> None,
                    courseStates |-> None, courseId |-> None,
                    courseWorkId |-> None, now |-> now]
    /\ pc' = "listing"
    /\ listReq' = "pending"
    /\ issued' = [issued EXCEPT !.list = @ + 1]
    /\ UNCHANGED <<classroom, upstream, earlier, courses, cwReq, subReq, perCourse, response>>

\* get_grades: asks for the course list.  The handler passes none of the
\* caller's arguments on.
CallGrades ==
    /\ pc = "idle"
    /\ classroom
    /\ call' = [NoCall EXCEPT !.tool = "get_grades"]
    /\ pc' = "listing"
    /\ listReq' = "pending"
    /\ issued' = [issued EXCEPT !.list = @ + 1]
    /\ UNCHANGED <<classroom, upstream, earlier, courses, cwReq, subReq, perCourse, response>>

\* calculate_grade: issues the course's two requests at once.
CallCalculateGrade ==
    /\ pc = "idle"
    /\ classroom
    /\ \E c \in AllIds :
           /\ call' = [NoCall EXCEPT !.tool = "calculate_grade", !.courseId = Some(c)]
           /\ cwReq' = [cwReq EXCEPT ![c] = "pending"]
           /\ subReq' = [subReq EXCEPT ![c] = "pending"]
           /\ issued' = [issued EXCEPT !.work[c] = @ + 1, !.subs[c] = @ + 1]
    /\ pc' = "fanout"
    /\ UNCHANGED <<classroom, upstream, earlier, listReq, courses, perCourse, response>>

\* get_submission_feedback: issues the request for the coursework and the
\* request for the submissions to it.
CallSubmissionFeedback ==
    /\ pc = "idle"
    /\ classroom
    /\ \E c \in AllIds : \E i \in 1..Len(upstream.work[c]) :
           /\ call' = [NoCall EXCEPT !.tool = "get_submission_feedback",
                                     !.courseId = Some(c),
                                     !.courseWorkId = Some(upstream.work[c][i].id)]
           /\ cwReq' = [cwReq EXCEPT ![c] = "pending"]
           /\ subReq' = [subReq EXCEPT ![c] = "pending"]
           /\ issued' = [issued EXCEPT !.work[c] = @ + 1, !.subs[c] = @ + 1]
    /\ pc' = "fanout"
    /\ UNCHANGED <<classroom, upstream, earlier, listReq, courses, perCourse, response>>

\* get_assignments: issues the course's coursework request.
CallGetAssignments ==
    /\ pc = "idle"
    /\ classroom
    /\ \E c \in AllIds :
           /\ call' = [NoCall EXCEPT !.tool = "get_assignments", !.courseId = Some(c)]
           /\ cwReq' = [cwReq EXCEPT ![c] = "pending"]
           /\ issued' = [issued EXCEPT !.work[c] = @ + 1]
    /\ pc' = "fanout"
    /\ UNCHANGED <<classroom, upstream, earlier, listReq, courses, subReq, perCourse, response>>

\* The fan-out that takes the courses one after another: only the requests
\* of the first course are issued when the course list arrives.
CoursesListedOneByOne ==
    /\ pc = "listing"
    /\ listReq' = "ok"
    /\ LET list == ListCourses(ActiveOnly)
       IN  /\ courses' = list
           /\ IF list = <<>>
              THEN /\ pc' = "done"
                   /\ response' = Ok(<<>>)
                   /\ UNCHANGED <<cwReq, subReq, issued>>
              ELSE /\ pc' = "fanout"
                   /\ cwReq' = [c \in AllIds |-> IF c = list[1].id THEN "pending" ELSE "none"]
                   /\ subReq' = [c \in AllIds |->
                                   IF c = list[1].id /\ call.tool # "get_upcoming_assignments"
                                   THEN "pending" ELSE "none"]
                   /\ issued' = [issued EXCEPT
                                    !.work[list[1].id] = @ + 1,
                                    !.subs[list[1].id] =
                                        IF call.tool # "get_upcoming_assignments"
                                        THEN @ + 1 ELSE @]
                   /\ UNCHANGED response
    /\ UNCHANGED <<classroom, upstream, earlier, call, perCourse>>

\* The course list arrives: every course's task starts and runs to its first
\* await, which issues its request (its two requests, in the missing and
\* grades views).  With no course, Promise.all([]) resolves at once.
CoursesListed ==
    /\ pc = "listing"
    /\ listReq' = "ok"
    /\ LET list == ListCourses(ActiveOnly)
           ids  == {list[i].id : i \in 1..Len(list)}
       IN  /\ courses' = list
           /\ IF list = <<>>
              THEN /\ pc' = "done"
                   /\ response' = Ok(<<>>)
                   /\ UNCHANGED <<cwReq, subReq, issued>>
              ELSE /\ pc' = "fanout"
                   /\ cwReq' = [c \in AllIds |-> IF c \in ids THEN "pending" ELSE "none"]
                   /\ subReq' = [c \in AllIds |->
                                   IF c \in ids /\ call.tool # "get_upcoming_assignments"
                                   THEN "pending" ELSE "none"]
                   /\ issued' = [issued EXCEPT
                                    !.work = [c \in AllIds |->
                                                 IF c \in ids THEN @[c] + 1 ELSE @[c]],
                                    !.subs = [c \in AllIds |->
                                                 IF c \in ids
                                                    /\ call.tool # "get_upcoming_assignments"
                                                 THEN @[c] + 1 ELSE @[c]]]
                   /\ UNCHANGED response
    /\ UNCHANGED <<classroom, upstream, earlier, call, perCourse>>

\* A view that takes a failed course listing for an empty one.
CoursesListSwallowed ==
    /\ pc = "listing"
    /\ listReq' = "err"
    /\ pc' = "done"
    /\ response' = Ok(<<>>)
    /\ UNCHANGED <<classroom, upstream, earlier, issued, call, courses, cwReq, subReq, perCourse>>

\* The course listing fails: the rejection leaves the view and reaches the
\* handler's catch.
CoursesListFailed ==
    /\ pc = "listing"
    /\ listReq' = "err"
    /\ ToolThrows
    /\ UNCHANGED <<classroom, upstream, earlier, issued, call, courses, cwReq, subReq>>

\* A request of course c completes with `outcome`, the other request of the
\* course being in state `other`.  The continuation of whatever awaited it
\* runs before any other response is looked at.
RequestSettles(c, outcome, other) ==
    IF call.tool = "calculate_grade"
    THEN \* const [cwResponse, subResponse] = await Promise.all([...]), no catch
         IF outcome = "err" THEN ToolThrows
         ELSE IF other = "ok"
              THEN /\ pc' = "done"
                   /\ response' = Ok(GradeOfCourse(c, ListCourseWork(c, PublishedOnly),
                                                   ListSubmissions(c)))
                   /\ UNCHANGED perCourse
              ELSE UNCHANGED <<pc, response, perCourse>>
    ELSE IF call.tool = "get_submission_feedback"
    THEN \* const [cwResponse, subResponse] = await Promise.all([...]), no catch
         IF outcome = "err" THEN ToolThrows
         ELSE IF other = "ok"
              THEN /\ pc' = "done"
                   /\ response' = Ok(FeedbackOf(
                                      GetCourseWork(c, call.courseWorkId[1]),
                                      ListSubmissionsTo(c, call.courseWorkId[1])))
                   /\ UNCHANGED perCourse
              ELSE UNCHANGED <<pc, response, perCourse>>
    ELSE IF call.tool = "get_assignments"
    THEN \* const response = await ...courseWork.list(...), no catch
         IF outcome = "err" THEN ToolThrows
         ELSE /\ pc' = "done"
              /\ response' = Ok(AssignmentsOfCourse(ListCourseWork(c, PublishedOnly)))
              /\ UNCHANGED perCourse
    ELSE IF perCourse[c] # None
         THEN \* the inner Promise.all was rejected before: nobody awaits this
              UNCHANGED <<pc, response, perCourse>>
         ELSE IF outcome = "err" THEN TaskCatches(c)
         ELSE IF other \in {"none", "ok"} THEN TaskReturns(c, TaskRows(CourseById(c)))
         ELSE UNCHANGED <<pc, response, perCourse>>

CourseWorkArrived(c) ==
    /\ pc = "fanout"
    /\ cwReq[c] = "pending"
    /\ cwReq' = [cwReq EXCEPT ![c] = "ok"]
    /\ RequestSettles(c, "ok", subReq[c])
    /\ UNCHANGED <<classroom, upstream, earlier, issued, call, listReq, courses, subReq>>

\* The failure that is answered by asking once more.
CourseWorkRetried(c) ==
    /\ pc = "fanout"
    /\ cwReq[c] = "pending"
    /\ IF issued.work[c] < 2
       THEN /\ issued' = [issued EXCEPT !.work[c] = @ + 1]
            /\ UNCHANGED <<cwReq, pc, response, perCourse>>
       ELSE /\ cwReq' = [cwReq EXCEPT ![c] = "err"]
            /\ RequestSettles(c, "err", subReq[c])
            /\ UNCHANGED issued
    /\ UNCHANGED <<classroom, upstream, earlier, call, listReq, courses, subReq>>

CourseWorkFailed(c) ==
    /\ pc = "fanout"
    /\ cwReq[c] = "pending"
    /\ cwReq' = [cwReq EXCEPT ![c] = "err"]
    /\ RequestSettles(c, "err", subReq[c])
    /\ UNCHANGED <<classroom, upstream, earlier, issued, call, listReq, courses, subReq>>

SubmissionsArrived(c) ==
    /\ pc = "fanout"
    /\ subReq[c] = "pending"
    /\ subReq' = [subReq EXCEPT ![c] = "ok"]
    /\ RequestSettles(c, "ok", cwReq[c])
    /\ UNCHANGED <<classroom, upstream, earlier, issued, call, listReq, courses, cwReq>>

\* The failure of the submissions listing taken for an empty listing: the
\* task goes on with the coursework alone.
SubmissionsFailedAsEmpty(c) ==
    /\ pc = "fanout"
    /\ subReq[c] = "pending"
    /\ subReq' = [subReq EXCEPT ![c] = "err"]
    /\ IF call.tool \in {"get_missing_assignments", "get_grades"}
          /\ perCourse[c] = None /\ cwReq[c] = "ok"
       THEN TaskReturns(c,
                IF call.tool = "get_missing_assignments"
                THEN MissingOfCourse(CourseById(c), ListCourseWork(c, PublishedOnly),
                                     <<>>, call.now)
                ELSE GradesOfCourse(CourseById(c), ListCourseWork(c, PublishedOnly),
                                    <<>>))
       ELSE RequestSettles(c, "err", cwReq[c])
    /\ UNCHANGED <<classroom, upstream, earlier, issued, call, listReq, courses, cwReq>>

SubmissionsFailed(c) ==
    /\ pc = "fanout"
    /\ subReq[c] = "pending"
    /\ subReq' = [subReq EXCEPT ![c] = "err"]
    /\ RequestSettles(c, "err", cwReq[c])
    /\ UNCHANGED <<classroom, upstream, earlier, issued, call, listReq, courses, cwReq>>

\* The caller has the response; the server is ready for the next call.
\* Requests still outstanding are abandoned: nothing awaits them, and what
\* the call held (its locals) is gone.
Deliver ==
    /\ pc = "done"
    /\ pc' = "idle"
    /\ call' = NoCall
    /\ listReq' = "none"
    /\ courses' = <<>>
    /\ cwReq' = NoRequests
    /\ subReq' = NoRequests
    /\ perCourse' = NoRows
    /\ response' = NoResponse
    /\ issued' = NoneIssued
    /\ UNCHANGED <<classroom, upstream, earlier>>

Next ==
    \/ CallUninitialized
    \/ CallUpcoming
    \/ CallMissing
    \/ CallGrades
    \/ CallCalculateGrade
    \/ CallGetAssignments
    \/ CallSubmissionFeedback
    \/ CallUnknown
    \/ CoursesListed
    \/ CoursesListFailed
    \/ \E c \in AllIds : CourseWorkArrived(c)
    \/ \E c \in AllIds : CourseWorkFailed(c)
    \/ \E c \in AllIds : SubmissionsArrived(c)
    \/ \E c \in AllIds : SubmissionsFailed(c)
    \/ Deliver

Spec == Init /\ [][Next]_vars

(***************************************************************************)
(* calculateGrade over the graded datasets.                                *)
(***************************************************************************)
GradeInit ==
    /\ classroom = TRUE
    /\ upstream \in GradedUpstreams
    /\ pc = "idle"
    /\ call = NoCall
    /\ listReq = "none"
    /\ courses = <<>>
    /\ cwReq = NoRequests
    /\ subReq = NoRequests
    /\ perCourse = NoRows
    /\ response = NoResponse
    /\ earlier = None
    /\ issued = NoneIssued

GradeNext ==
    \/ CallCalculateGrade
    \/ \E c \in AllIds : CourseWorkArrived(c)
    \/ \E c \in AllIds : CourseWorkFailed(c)
    \/ \E c \in AllIds : SubmissionsArrived(c)
    \/ \E c \in AllIds : SubmissionsFailed(c)
    \/ Deliver

GradeSpec == GradeInit /\ [][GradeNext]_vars

(***************************************************************************)
(* The server over the datasets with a shared coursework identifier.       *)
(***************************************************************************)
TwinInit ==
    /\ classroom \in BOOLEAN
    /\ upstream \in TwinUpstreams
    /\ pc = "idle"
    /\ call = NoCall
    /\ listReq = "none"
    /\ courses = <<>>
    /\ cwReq = NoRequests
    /\ subReq = NoRequests
    /\ perCourse = NoRows
    /\ response = NoResponse
    /\ earlier = None
    /\ issued = NoneIssued

TwinSpec == TwinInit /\ [][Next]_vars

(***************************************************************************)
(* The server over the dated datasets.                                     *)
(***************************************************************************)
DatedInit ==
    /\ classroom \in BOOLEAN
    /\ upstream \in DatedUpstreams
    /\ pc = "idle"
    /\ call = NoCall
    /\ listReq = "none"
    /\ courses = <<>>
    /\ cwReq = NoRequests
    /\ subReq = NoRequests
    /\ perCourse = NoRows
    /\ response = NoResponse
    /\ earlier = None
    /\ issued = NoneIssued

DatedSpec == DatedInit /\ [][Next]_vars

(***************************************************************************)
(* Calls one after another against one dataset, one of them remembered.    *)
(***************************************************************************)
\* The datasets of the repeated calls: both courses ACTIVE, each holding the
\* first MaxItems assignments of its pool, in order.
RerunUpstreams ==
    {u \in Upstreams :
        /\ \A i \in 1..Len(u.courses) : u.courses[i].courseState = "ACTIVE"
        /\ \A c \in AllIds :
               LET run == SubSeq(Pool(c), 1, IF Len(Pool(c)) < MaxItems THEN Len(Pool(c))
                                             ELSE MaxItems)
               IN  u.work[c] = WorkOf(run) /\ u.subs[c] = SubsOf(run)}

\* How the requests of the call in flight ended.
Outcome ==
    [list |-> listReq,
     failed |-> {c \in AllIds : cwReq[c] = "err" \/ subReq[c] = "err"}]

\* History: the call that is done is remembered with its response.
Remember ==
    /\ pc = "done"
    /\ earlier = None
    /\ earlier' = Some([call |-> call, outcome |-> Outcome, response |-> response,
                        others |-> FALSE])
    /\ UNCHANGED <<classroom, upstream, pc, call, listReq, courses, cwReq, subReq,
                   perCourse, response, issued>>

\* History: a call other than the remembered one is done.
NoteOther ==
    /\ pc = "done"
    /\ earlier # None
    /\ earlier[1].call # call
    /\ ~ earlier[1].others
    /\ earlier' = Some([earlier[1] EXCEPT !.others = TRUE])
    /\ UNCHANGED <<classroom, upstream, pc, call, listReq, courses, cwReq, subReq,
                   perCourse, response, issued>>

RerunInit ==
    /\ classroom = TRUE
    /\ upstream \in RerunUpstreams
    /\ pc = "idle"
    /\ call = NoCall
    /\ listReq = "none"
    /\ courses = <<>>
    /\ cwReq = NoRequests
    /\ subReq = NoRequests
    /\ perCourse = NoRows
    /\ response = NoResponse
    /\ earlier = None
    /\ issued = NoneIssued

RerunNext ==
    \/ CallUpcoming
    \/ CallMissing
    \/ CallGrades
    \/ CallCalculateGrade
    \/ CoursesListed
    \/ CoursesListFailed
    \/ \E c \in AllIds : CourseWorkArrived(c)
    \/ \E c \in AllIds : CourseWorkFailed(c)
    \/ \E c \in AllIds : SubmissionsArrived(c)
    \/ \E c \in AllIds : SubmissionsFailed(c)
    \/ Deliver
    \/ Remember
    \/ NoteOther

RerunSpec == RerunInit /\ [][RerunNext]_vars

(***************************************************************************)
(* The claims.                                                             *)
(***************************************************************************)
\* A request of course c failed: its task ended in its catch.
Failed(c) == cwReq[c] = "err" \/ subReq[c] = "err"

\* The view `tool` has returned a result to the caller.
Returned(tool) == pc = "done" /\ call.tool = tool /\ response.kind = "ok"

Rows == response.value

RowsOf(c) == SelectSeq(Rows, LAMBDA r : r.courseId = c)

Fetched == {c \in Resolved : ~ Failed(c)}

\* The PUBLISHED coursework of course c, as the remote service holds it.
Published(c) ==
    {upstream.work[c][i] : i \in {j \in 1..Len(upstream.work[c]) :
                                      upstream.work[c][j].state = "PUBLISHED"}}

\* The submissions of course c to the coursework with identifier id.
Matching(c, id) ==
    {upstream.subs[c][i] : i \in {j \in 1..Len(upstream.subs[c]) :
                                      upstream.subs[c][j].courseWorkId = id}}

\* The row is the one the view made of coursework cw of course c.
RowOf(r, c, cw) == r.courseId = c /\ r.assignmentId = cw.id /\ r.title = cw.title

Listed(c, cw) == \E i \in 1..Len(Rows) : RowOf(Rows[i], c, cw)

\* The lookahead in days of the call in flight.
Lookahead == IF call.days = None THEN 7 ELSE call.days[1]

\* The view of the call in flight, run over the course list `list` with
\* every request succeeding.
ViewOver(list) == Merge(call.tool, [i \in 1..Len(list) |-> TaskRows(list[i])])

\* C1: a cross-course view whose course listing succeeded returns normally
\* whatever subset of its courses failed, and its result is the result of the
\* view over the courses that did not fail.
C1_FailureIsolation ==
    (pc = "done" /\ call.tool \in Aggregations /\ listReq = "ok") =>
        /\ response.kind = "ok"
        /\ Rows = ViewOver(SelectSeq(courses, LAMBDA c : ~ Failed(c.id)))

\* A view returned rows of one course while another course, which holds rows
\* for the view, failed.
C1_Witness ==
    /\ pc = "done" /\ call.tool \in Aggregations /\ response.kind = "ok"
    /\ Rows # <<>>
    /\ \E c \in Resolved : Failed(c) /\ TaskRows(CourseById(c)) # <<>>

\* C2: when the course listing of a cross-course view fails, the call ends
\* with an error for the caller, no per-course request was issued and no
\* result is returned.
C2_ResolverFailureIsFatal ==
    listReq = "err" =>
        /\ pc = "done"
        /\ response.kind = "error"
        /\ \A c \in AllIds : cwReq[c] = "none" /\ subReq[c] = "none"

\* The course listing of a view failed, upstream holding an ACTIVE course.
C2_Witness ==
    /\ listReq = "err"
    /\ call.tool \in Aggregations
    /\ ListCourses({"ACTIVE"}) # <<>>

\* C3: every row of an upcoming result comes from a coursework that has a
\* due date, whose local midnight D satisfies now <= D <= now + N days.
C3_UpcomingWithinWindow ==
    Returned("get_upcoming_assignments") =>
        \A i \in 1..Len(Rows) :
            \E cw \in Published(Rows[i].courseId) :
                /\ RowOf(Rows[i], Rows[i].courseId, cw)
                /\ cw.dueDate # None
                /\ call.now <= DueInstant(cw.dueDate[1])
                /\ DueInstant(cw.dueDate[1]) <= call.now + Lookahead * DayLength

\* An upcoming result with a row, from a course that also holds a coursework
\* due after the window and one without a due date or due before now.
C3_Witness ==
    /\ Returned("get_upcoming_assignments")
    /\ Rows # <<>>
    /\ \E c \in Fetched :
           /\ \E cw \in Published(c) :
                  /\ cw.dueDate # None
                  /\ DueInstant(cw.dueDate[1]) > call.now + Lookahead * DayLength
           /\ \E cw \in Published(c) :
                  \/ cw.dueDate = None
                  \/ DueInstant(cw.dueDate[1]) < call.now

\* The calendar day of an instant, in days since 1970-01-01.
DayOf(instant) == instant \div DayLength

\* Every PUBLISHED coursework of a fetched course whose due instant D
\* satisfies now <= D <= now + N days is in the upcoming result.
UpcomingComplete ==
    Returned("get_upcoming_assignments") =>
        \A c \in Fetched : \A cw \in Published(c) :
            ( /\ cw.dueDate # None
              /\ call.now <= DueInstant(cw.dueDate[1])
              /\ DueInstant(cw.dueDate[1]) <= call.now + Lookahead * DayLength )
            => Listed(c, cw)

\* C4: the upcoming result holds every PUBLISHED coursework of every fetched
\* course whose due date D satisfies now <= D <= now + N days, the comparison
\* being made on calendar dates: a coursework due on the calendar day of now
\* is in the result for every N >= 0, at any time of that day.
C4_DueTodayIsUpcoming ==
    /\ UpcomingComplete
    /\ Returned("get_upcoming_assignments") =>
           \A c \in Fetched : \A cw \in Published(c) :
               ( /\ cw.dueDate # None
                 /\ DaysFromCivil(cw.dueDate[1].year, cw.dueDate[1].month,
                                  cw.dueDate[1].day) = DayOf(call.now) )
               => Listed(c, cw)

Submitted == {"TURNED_IN", "RETURNED"}

\* C5: a PUBLISHED coursework of a fetched course is in the missing result
\* if and only if it has a due date whose local midnight is before now and no
\* submission to it is TURNED_IN or RETURNED; no row of the result has a
\* submission state of TURNED_IN or RETURNED.
C5_MissingExactly ==
    Returned("get_missing_assignments") =>
        /\ \A c \in Fetched : \A cw \in Published(c) :
               Listed(c, cw) <=>
                   /\ cw.dueDate # None
                   /\ DueInstant(cw.dueDate[1]) < call.now
                   /\ \A sub \in Matching(c, cw.id) : sub.state \notin Submitted
        /\ \A i \in 1..Len(Rows) : Rows[i].submissionState \notin Submitted

\* A missing result with a row whose coursework has a submission, from a
\* course that also holds a past-due coursework that was submitted.
C5_Witness ==
    /\ Returned("get_missing_assignments")
    /\ \E c \in Fetched :
           /\ \E cw \in Published(c) :
                  /\ Listed(c, cw)
                  /\ Matching(c, cw.id) # {}
           /\ \E cw \in Published(c) :
                  /\ cw.dueDate # None
                  /\ DueInstant(cw.dueDate[1]) < call.now
                  /\ \E sub \in Matching(c, cw.id) : sub.state \in Submitted

\* C6: the submissionState of a row of the missing result is the state of
\* the submission to its coursework when the course returned one, and
\* NOT_STARTED exactly when it returned none.
C6_SubmissionStateLabel ==
    Returned("get_missing_assignments") =>
        \A i \in 1..Len(Rows) :
            LET subs == Matching(Rows[i].courseId, Rows[i].assignmentId)
            IN  /\ subs = {} => Rows[i].submissionState = "NOT_STARTED"
                /\ subs # {} =>
                       /\ Rows[i].submissionState # "NOT_STARTED"
                       /\ \E sub \in subs : Rows[i].submissionState = sub.state

\* A missing result with a NOT_STARTED row and a row that carries the state
\* of its submission.
C6_Witness ==
    /\ Returned("get_missing_assignments")
    /\ \E i, j \in 1..Len(Rows) :
           /\ Rows[i].submissionState = "NOT_STARTED"
           /\ Matching(Rows[j].courseId, Rows[j].assignmentId) # {}

\* a <= b in the order of strings: at the first place where they differ, a
\* has ended or holds the smaller character.
StrLeq(a, b) ==
    \E k \in 0..Len(a) :
        /\ k <= Len(b)
        /\ \A n \in 1..k : a[n] = b[n]
        /\ \/ k = Len(a)
           \/ k < Len(b) /\ a[k + 1] < b[k + 1]

\* C7: in an upcoming or missing result, the due-date string of a row is <=
\* the due-date string of every row after it.
C7_SortedByDueString ==
    (Returned("get_upcoming_assignments") \/ Returned("get_missing_assignments")) =>
        \A i, j \in 1..Len(Rows) :
            i < j => StrLeq(Rows[i].dueDate, Rows[j].dueDate)

\* A result with rows of two courses that is not in the order of the
\* concatenated per-course lists.
C7_Witness ==
    /\ Returned("get_upcoming_assignments") \/ Returned("get_missing_assignments")
    /\ \E i, j \in 1..Len(Rows) : Rows[i].courseId # Rows[j].courseId
    /\ Rows # Flat([i \in 1..Len(courses) |-> perCourse[courses[i].id][1]])

\* Every PUBLISHED coursework of the course of a grade calculation that has
\* no submission is missing from the breakdown.
UnsubmittedNotInBreakdown ==
    Returned("calculate_grade") =>
        \A cw \in Published(call.courseId[1]) :
            Matching(call.courseId[1], cw.id) = {} =>
                \A k \in 1..Len(Rows.breakdown) : Rows.breakdown[k].assignmentId # cw.id

RowsFor(c, id) == {i \in 1..Len(Rows) : Rows[i].courseId = c /\ Rows[i].assignmentId = id}

\* Every PUBLISHED coursework of a fetched course that has a submission has
\* exactly one row, which carries the submission's grade.
SubmittedHasOneRow ==
    Returned("get_grades") =>
        \A c \in Fetched : \A cw \in Published(c) :
            Matching(c, cw.id) # {} =>
                /\ Cardinality(RowsFor(c, cw.id)) = 1
                /\ \A i \in RowsFor(c, cw.id) : \E sub \in Matching(c, cw.id) :
                       /\ Rows[i].state = sub.state
                       /\ Rows[i].assignedGrade = sub.assignedGrade

\* C9, as claimed: every row of the grades listing is the row of one
\* PUBLISHED coursework that has a submission, every such coursework has
\* exactly one row, graded or not, and no row is made of a submission whose
\* courseWorkId is the id of no listed coursework.
C9_RowsAreListedCourseWork ==
    /\ SubmittedHasOneRow
    /\ Returned("get_grades") =>
           \A i \in 1..Len(Rows) :
               \E cw \in Published(Rows[i].courseId) :
                   /\ cw.id = Rows[i].assignmentId
                   /\ Matching(Rows[i].courseId, cw.id) # {}

\* C9, amended: the rows of a fetched course in the grades listing are its
\* submissions, one row each and in their order, graded or not; every
\* PUBLISHED coursework that has a submission has exactly one row; the row of
\* a submission whose courseWorkId is the id of no listed coursework has no
\* title, no maxPoints and no dueDate.
C9_RowsAreSubmissions ==
    /\ SubmittedHasOneRow
    /\ Returned("get_grades") =>
           /\ \A i \in 1..Len(Rows) : Rows[i].courseId \in Fetched
           /\ \A c \in Fetched :
                  LET rows == RowsOf(c)
                      subs == upstream.subs[c]
                  IN  /\ Len(rows) = Len(subs)
                      /\ \A i \in 1..Len(subs) :
                             /\ rows[i].assignmentId = subs[i].courseWorkId
                             /\ rows[i].state = subs[i].state
                             /\ rows[i].assignedGrade = subs[i].assignedGrade
                             /\ \A cw \in Published(c) :
                                    cw.id = subs[i].courseWorkId =>
                                        /\ rows[i].title = Some(cw.title)
                                        /\ rows[i].maxPoints = cw.maxPoints
                             /\ (\A cw \in Published(c) : cw.id # subs[i].courseWorkId) =>
                                    /\ rows[i].title = None
                                    /\ rows[i].maxPoints = None
                                    /\ rows[i].dueDate = None

\* A grades listing with the row of an ungraded submission and the row of a
\* submission to a coursework that is not listed.
C9_Witness ==
    /\ Returned("get_grades")
    /\ \E i, j \in 1..Len(Rows) :
           /\ Rows[i].assignedGrade = None
           /\ Rows[i].title # None
           /\ Rows[j].title = None

\* The submission of course c counts in its grade: it has a grade and the
\* PUBLISHED coursework it belongs to has max points.
Counts(c, sub) ==
    /\ sub.assignedGrade # None
    /\ \E cw \in Published(c) : cw.id = sub.courseWorkId /\ cw.maxPoints # None

\* C10: the breakdown of a grade calculation lists, in the order of the
\* submissions, exactly those that have a grade and whose coursework has max
\* points; gradedAssignments is its length, totalEarned and totalPossible are
\* the sums of its earned and possible values.
C10_GradeTotals ==
    Returned("calculate_grade") =>
        LET c       == call.courseId[1]
            counted == SelectSeq(upstream.subs[c], LAMBDA sub : Counts(c, sub))
            entries == Rows.breakdown
        IN  /\ Len(entries) = Len(counted)
            /\ Rows.gradedAssignments = Len(entries)
            /\ \A k \in 1..Len(counted) :
                   /\ entries[k].assignmentId = counted[k].courseWorkId
                   /\ entries[k].earned = counted[k].assignedGrade[1]
                   /\ \E cw \in Published(c) :
                          /\ cw.id = counted[k].courseWorkId
                          /\ entries[k].possible = cw.maxPoints[1]
            /\ Rows.totalEarned = SumSeq([k \in 1..Len(entries) |-> entries[k].earned])
            /\ Rows.totalPossible = SumSeq([k \in 1..Len(entries) |-> entries[k].possible])

\* A grade calculation that skipped a submission and whose breakdown holds
\* two entries, the larger grade first.
C10_Witness ==
    /\ Returned("calculate_grade")
    /\ Len(Rows.breakdown) = 2
    /\ Len(upstream.subs[call.courseId[1]]) > 2
    /\ Rows.breakdown[1].earned > Rows.breakdown[2].earned

\* C11: in a grade calculation, the percentage of a breakdown entry is a
\* number exactly when the entry's coursework has max points > 0 (the entry
\* has a grade, or it would not be in the breakdown) and is absent otherwise;
\* overallPercentage is a number exactly when totalPossible > 0 and absent
\* otherwise; where a percentage is absent, no 0 stands in for it.
C11_PercentageDefined ==
    Returned("calculate_grade") =>
        LET c       == call.courseId[1]
            counted == SelectSeq(upstream.subs[c], LAMBDA sub : Counts(c, sub))
            entries == Rows.breakdown
        IN  /\ Len(entries) = Len(counted)
            /\ \A k \in 1..Len(entries) :
                   \A cw \in Published(c) :
                       cw.id = counted[k].courseWorkId =>
                           /\ cw.maxPoints[1] > 0 => Len(entries[k].percentage) = 1
                           /\ ~ (cw.maxPoints[1] > 0) => entries[k].percentage = None
            /\ Rows.totalPossible > 0 => Len(Rows.overallPercentage) = 1
            /\ ~ (Rows.totalPossible > 0) => Rows.overallPercentage = None

\* A grade calculation with an overall percentage whose breakdown holds an
\* entry without percentage and an entry with one.
C11_Witness ==
    /\ Returned("calculate_grade")
    /\ \E k \in 1..Len(Rows.breakdown) : Rows.breakdown[k].percentage = None
    /\ \E k \in 1..Len(Rows.breakdown) : Rows.breakdown[k].percentage # None
    /\ Rows.overallPercentage # None

\* earned / possible * 100 rounded half-up to one decimal place, in tenths.
HalfUpTenths(earned, possible) == (2000 * earned + possible) \div (2 * possible)

\* C12: for non-negative integers earned and positive integers possible, the
\* percentage of a breakdown entry and the overall percentage of a grade
\* calculation are earned / possible * 100 rounded half-up to one decimal
\* place: floor((2000 * earned + possible) / (2 * possible)) tenths.
C12_PercentageHalfUp ==
    Returned("calculate_grade") =>
        /\ \A k \in 1..Len(Rows.breakdown) :
               LET e == Rows.breakdown[k]
               IN  e.possible > 0 =>
                       e.percentage = Some(HalfUpTenths(e.earned, e.possible))
        /\ Rows.totalPossible > 0 =>
               Rows.overallPercentage =
                   Some(HalfUpTenths(Rows.totalEarned, Rows.totalPossible))

\* A request of the call in flight has not completed.
Outstanding ==
    \/ listReq = "pending"
    \/ \E c \in AllIds : cwReq[c] = "pending" \/ subReq[c] = "pending"

\* C13: a cross-course view returns only after every remote request it
\* issued has completed, with a result or with an error: while one of its
\* requests is outstanding it has not returned, whatever failed before.
C13_ReturnsAfterAllRequests ==
    (pc = "done" /\ call.tool \in Aggregations) => ~ Outstanding

\* The task of course c got the results of its requests and made its rows of
\* them (its join, filter and map have run).
Joined(c) == perCourse[c] # None /\ ~ Failed(c)

\* C14, as claimed: in a cross-course view, the join of a course never runs
\* while a request of the view is outstanding: once a course's rows are made,
\* the fetch results of all courses are there.
C14_JoinAfterAllFetches ==
    call.tool \in Aggregations =>
        \A c \in AllIds : Joined(c) => ~ Outstanding

\* C14, amended: the rows of a course are made once that course's own
\* requests have succeeded, whatever requests of other courses are
\* outstanding; the merge runs and the view returns only once every course
\* of the resolved set has its list (its rows, or the empty list of a failed
\* course), and nothing reaches the caller before.
C14_MergeAfterAllTasks ==
    call.tool \in Aggregations =>
        /\ \A c \in AllIds :
               Joined(c) => cwReq[c] = "ok" /\ subReq[c] \in {"ok", "none"}
        /\ (pc = "done" /\ listReq = "ok") => \A c \in Resolved : perCourse[c] # None
        /\ pc # "done" => response = NoResponse

\* The rows of one course are made while the request of another course is
\* outstanding and the view has not returned.
C14_Witness ==
    /\ call.tool \in Aggregations
    /\ pc = "fanout"
    /\ \E c, d \in Resolved :
           /\ Joined(c)
           /\ perCourse[c] # Some(<<>>)
           /\ cwReq[d] = "pending"

\* The courses of the remote service that are not ACTIVE.
NotActive ==
    {upstream.courses[i].id :
        i \in {j \in 1..Len(upstream.courses) : upstream.courses[j].courseState # "ACTIVE"}}

\* C15: in a cross-course view, whatever arguments the caller passed, no
\* request is issued for a course that is not ACTIVE, no task runs for it and
\* no row of the result comes from it.
C15_ActiveOnly ==
    call.tool \in Aggregations =>
        \A c \in NotActive :
            /\ cwReq[c] = "none" /\ subReq[c] = "none"
            /\ c \notin Resolved
            /\ perCourse[c] = None
            /\ response.kind = "ok" => RowsOf(c) = <<>>

\* An upcoming result with rows, the caller having asked for ARCHIVED
\* courses, while an ARCHIVED course holds coursework due within the window.
C15_Witness ==
    /\ Returned("get_upcoming_assignments")
    /\ call.courseStates = Some({"ARCHIVED"})
    /\ Rows # <<>>
    /\ \E c \in NotActive : \E cw \in Published(c) :
           /\ cw.dueDate # None
           /\ call.now <= DueInstant(cw.dueDate[1])
           /\ DueInstant(cw.dueDate[1]) <= call.now + Lookahead * DayLength

\* The call that is done is the remembered call over again: the same tool
\* and arguments, the same clock, and its requests ended the same way.
Rerun ==
    /\ pc = "done"
    /\ earlier # None
    /\ earlier[1].call = call
    /\ earlier[1].outcome = Outcome

C17_DaysDefault ==
    Returned("get_upcoming_assignments") =>
        LET n == IF call.days = None THEN 7 ELSE call.days[1]
        IN  \A c \in Fetched : \A cw \in Published(c) :
                cw.dueDate # None =>
                    ( Listed(c, cw) <=>
                          /\ call.now <= DueInstant(cw.dueDate[1])
                          /\ DueInstant(cw.dueDate[1]) <= call.now + n * DayLength )

\* The coursework of a course that is due d days after the calendar day of now.
DueIn(c, d) ==
    {cw \in Published(c) :
        /\ cw.dueDate # None
        /\ DueInstant(cw.dueDate[1]) = DayOf(call.now) * DayLength + d * DayLength}

\* An upcoming result for omitted days that lists a coursework due in 7 days
\* and not one due in 8 days.
C17_Witness ==
    /\ Returned("get_upcoming_assignments")
    /\ call.days = None
    /\ \E c \in Fetched :
           /\ \E cw \in DueIn(c, 7) : Listed(c, cw)
           /\ \E cw \in DueIn(c, 8) : ~ Listed(c, cw)

\* The coursework of course c that has the identifier id.
WorkWith(c, id) == {cw \in Published(c) : cw.id = id}

\* C18: in every row of an upcoming, missing, grades and getAssignments
\* result, maxPoints (and assignedGrade, in the grades listing) is what the
\* remote service holds for the row's coursework (submission): absent when
\* absent there, and never 0 for it; the value there, 0 included, otherwise.
C18_NumbersPassThrough ==
    /\ (Returned("get_upcoming_assignments") \/ Returned("get_missing_assignments")) =>
           \A i \in 1..Len(Rows) :
               \E cw \in WorkWith(Rows[i].courseId, Rows[i].assignmentId) :
                   Rows[i].maxPoints = cw.maxPoints
    /\ Returned("get_grades") =>
           \A c \in Fetched :
               LET rows == RowsOf(c)
                   subs == upstream.subs[c]
               IN  /\ Len(rows) = Len(subs)
                   /\ \A i \in 1..Len(subs) :
                          /\ rows[i].assignedGrade = subs[i].assignedGrade
                          /\ \A cw \in WorkWith(c, subs[i].courseWorkId) :
                                 rows[i].maxPoints = cw.maxPoints
                          /\ WorkWith(c, subs[i].courseWorkId) = {} =>
                                 rows[i].maxPoints = None
    /\ Returned("get_assignments") =>
           LET c == call.courseId[1]
           IN  /\ Len(Rows) = Cardinality(Published(c))
               /\ \A i \in 1..Len(Rows) :
                      \E cw \in WorkWith(c, Rows[i].id) : Rows[i].maxPoints = cw.maxPoints

\* A grades listing with a row whose grade is 0, a row whose max points are
\* 0, a row without grade or without max points.
C18_Witness ==
    /\ Returned("get_grades")
    /\ \E i, j, k \in 1..Len(Rows) :
           /\ Rows[i].assignedGrade = Some(0)
           /\ Rows[j].maxPoints = Some(0)
           /\ Rows[k].maxPoints = None \/ Rows[k].assignedGrade = None

\* C19: while the Classroom client is not initialised, a tool call of any
\* name and arguments ends with the InternalError 'Google Classroom API not
\* initialized' and no remote request is issued.
C19_NotInitialized ==
    ~ classroom =>
        /\ listReq = "none"
        /\ \A c \in AllIds : cwReq[c] = "none" /\ subReq[c] = "none"
        /\ call.tool # "none" =>
               /\ pc = "done"
               /\ response.kind = "error"
               /\ response.code = "InternalError"
               /\ response.message =
                      "Google Classroom API not initialized. Please run: npm run setup-auth"

\* A call of a name that is no tool's has ended with an error while the
\* client is not initialised.
C19_Witness ==
    /\ ~ classroom
    /\ pc = "done"
    /\ call.tool = "no_such_tool"
    /\ response.kind = "error"

\* The requests of course c that the view in flight makes are issued.
Issued(c) ==
    /\ cwReq[c] # "none"
    /\ call.tool # "get_upcoming_assignments" => subReq[c] # "none"

\* A response of course c has come back.
Answered(c) == cwReq[c] \in {"ok", "err"} \/ subReq[c] \in {"ok", "err"}

\* C20: in a cross-course view, once the course list is there, every request
\* of every course of the resolved set is issued (both requests of a course
\* in the missing and grades views): no response of a course has come back,
\* and no course's list is made, while a request of another is not issued.
C20_AllIssuedAtOnce ==
    call.tool \in Aggregations =>
        /\ listReq = "ok" => \A c \in Resolved : Issued(c)
        /\ (\E c \in AllIds : Answered(c) \/ perCourse[c] # None) =>
               \A c \in Resolved : Issued(c)
        /\ listReq # "ok" => \A c \in AllIds : cwReq[c] = "none" /\ subReq[c] = "none"

\* In a missing or grades view over two courses, a response of one course
\* has come back while both requests of the other are outstanding.
C20_Witness ==
    /\ call.tool \in {"get_missing_assignments", "get_grades"}
    /\ pc = "fanout"
    /\ \E c, d \in Resolved :
           /\ Answered(c)
           /\ cwReq[d] = "pending" /\ subReq[d] = "pending"

\* C21: within a call of a cross-course view (the client being
\* initialised), the course listing is issued
\* exactly once, and for each course of the resolved set the coursework
\* listing is issued exactly once and the submissions listing exactly once
\* (never, in the upcoming view); nothing is issued for another course, and
\* nothing is issued again after a failure.
C21_EachRequestOnce ==
    (classroom /\ call.tool \in Aggregations) =>
        /\ issued.list = 1
        /\ \A c \in AllIds :
               /\ issued.work[c] = (IF listReq = "ok" /\ c \in Resolved THEN 1 ELSE 0)
               /\ issued.subs[c] =
                      (IF listReq = "ok" /\ c \in Resolved
                          /\ call.tool # "get_upcoming_assignments" THEN 1 ELSE 0)

\* A view over two courses has returned after a request of one of them
\* failed.
C21_Witness ==
    /\ pc = "done"
    /\ call.tool \in Aggregations
    /\ Cardinality(Resolved) = 2
    /\ \E c \in Resolved : Failed(c)

\* The PUBLISHED coursework of course c in the order of the listing.
PublishedList(c) == SelectSeq(upstream.work[c], LAMBDA cw : cw.state = "PUBLISHED")

\* Items k < n of the listing of course c share their identifier.
Shared(c, k, n) ==
    /\ k \in 1..Len(PublishedList(c)) /\ n \in 1..Len(PublishedList(c))
    /\ k < n
    /\ PublishedList(c)[k].id = PublishedList(c)[n].id

\* The last item of the listing of course c with the identifier id.
LastWith(c, id) ==
    LET list == PublishedList(c)
    IN  list[CHOOSE n \in 1..Len(list) :
                 /\ list[n].id = id
                 /\ \A m \in 1..Len(list) : list[m].id = id => m <= n]

\* In the grades listing and the grade calculation, the records of an
\* identifier carry the title and max points of the last item with it.
LaterWinsInGrades ==
    /\ Returned("get_grades") =>
           \A i \in 1..Len(Rows) :
               (Rows[i].courseId \in Fetched /\ Rows[i].title # None) =>
                   LET cw == LastWith(Rows[i].courseId, Rows[i].assignmentId)
                   IN  /\ Rows[i].title = Some(cw.title)
                       /\ Rows[i].maxPoints = cw.maxPoints
                       /\ Rows[i].dueDate = Some(DueString(cw.dueDate[1]))
    /\ Returned("calculate_grade") =>
           \A k \in 1..Len(Rows.breakdown) :
               LET cw == LastWith(call.courseId[1], Rows.breakdown[k].assignmentId)
               IN  /\ Rows.breakdown[k].title = Some(cw.title)
                   /\ Rows.breakdown[k].possible = cw.maxPoints[1]

\* C22, as claimed: in the missing and grades views and the grade
\* calculation, when two coursework items of a course share an identifier,
\* the records of that identifier carry the later item's fields and the
\* earlier item has no record of its own.
C22_LaterItemWins ==
    /\ LaterWinsInGrades
    /\ Returned("get_missing_assignments") =>
           \A c \in Fetched : \A k, n \in 1..Len(PublishedList(c)) :
               Shared(c, k, n) =>
                   \A i \in 1..Len(Rows) :
                       ~ (Rows[i].courseId = c /\ Rows[i].title = PublishedList(c)[k].title)

\* C22, amended: in the grades listing and the grade calculation the later
\* item wins; in the missing view, whose join map holds the submissions,
\* every item is classified on its own: each of the items that share an
\* identifier has its own row, with its own title, due date and max points,
\* exactly when its own due date is past and the last submission to the
\* identifier (if any) is not submitted; the row's submissionState is that
\* submission's state.
C22_LaterWinsExceptMissing ==
    /\ LaterWinsInGrades
    /\ Returned("get_missing_assignments") =>
           \A c \in Fetched : \A k \in 1..Len(PublishedList(c)) :
               LET cw   == PublishedList(c)[k]
                   subs == upstream.subs[c]
                   hits == {j \in 1..Len(subs) : subs[j].courseWorkId = cw.id}
                   last == CHOOSE j \in hits : \A m \in hits : m <= j
                   mine == {i \in 1..Len(Rows) :
                               /\ Rows[i].courseId = c
                               /\ Rows[i].assignmentId = cw.id
                               /\ Rows[i].title = cw.title}
               IN  /\ mine # {} <=>
                          /\ cw.dueDate # None
                          /\ DueInstant(cw.dueDate[1]) < call.now
                          /\ hits # {} => subs[last].state \notin Submitted
                   /\ \A i \in mine :
                          /\ Rows[i].dueDate = DueString(cw.dueDate[1])
                          /\ Rows[i].maxPoints = cw.maxPoints
                          /\ Rows[i].submissionState =
                                 (IF hits = {} THEN "NOT_STARTED" ELSE subs[last].state)

\* A missing result with a row of each of two items that share their
\* identifier.
C22_Witness ==
    /\ Returned("get_missing_assignments")
    /\ \E c \in Fetched : \E k, n \in 1..Len(PublishedList(c)) :
           /\ Shared(c, k, n)
           /\ \E i, j \in 1..Len(Rows) :
                  /\ Rows[i].courseId = c /\ Rows[j].courseId = c
                  /\ Rows[i].title = PublishedList(c)[k].title
                  /\ Rows[j].title = PublishedList(c)[n].title

\* The coursework of which the row r of an upcoming or missing result is made.
Source(r) == CHOOSE cw \in Published(r.courseId) : cw.id = r.assignmentId

\* The string is a zero-padded YYYY-MM-DD: four digits, two and two,
\* separated by hyphens.
IsIsoDate(str) ==
    /\ Len(str) = 10
    /\ \A n \in 1..10 : IF n \in {5, 8} THEN str[n] = 45 ELSE str[n] \in 48..57

\* C23: in an upcoming or missing result, the due-date string of a row is a
\* zero-padded YYYY-MM-DD that depends only on the due date of its
\* coursework (not on its due time), the strings of two rows are in
\* lexicographic order exactly when their due dates are in chronological
\* order, and the rows are in chronological order of their due dates.
C23_StringOrderIsChronological ==
    (Returned("get_upcoming_assignments") \/ Returned("get_missing_assignments")) =>
        /\ \A i \in 1..Len(Rows) : IsIsoDate(Rows[i].dueDate)
        /\ \A i, j \in 1..Len(Rows) :
               LET di == Source(Rows[i]).dueDate[1]
                   dj == Source(Rows[j]).dueDate[1]
               IN  /\ di = dj => Rows[i].dueDate = Rows[j].dueDate
                   /\ StrLeq(Rows[i].dueDate, Rows[j].dueDate) <=>
                          DueInstant(di) <= DueInstant(dj)
                   /\ i < j => DueInstant(di) <= DueInstant(dj)

\* The place of course c in the resolved course list.
Place(c) == CHOOSE i \in 1..Len(courses) : courses[i].id = c

\* C24: whatever the order in which the requests of a cross-course view
\* completed, its result holds of every course that did not fail exactly the
\* rows of its task, and two rows of different courses that the sort does
\* not tell apart (any two rows of a grades result, two rows with the same
\* due-date string otherwise) are in the order of the resolved course list.
C24_CourseListOrder ==
    (pc = "done" /\ call.tool \in Aggregations /\ response.kind = "ok") =>
        /\ \A c \in Resolved :
               Len(RowsOf(c)) = IF Failed(c) THEN 0 ELSE Len(TaskRows(CourseById(c)))
        /\ \A i, j \in 1..Len(Rows) :
               (/\ i < j
                /\ Rows[i].courseId # Rows[j].courseId
                /\ call.tool = "get_grades" \/ Rows[i].dueDate = Rows[j].dueDate)
                   => Place(Rows[i].courseId) < Place(Rows[j].courseId)

\* A missing result with rows of two courses that have the same due-date
\* string, and a grades result with rows of two courses.
C24_Witness ==
    /\ pc = "done" /\ call.tool \in {"get_missing_assignments", "get_grades"}
    /\ response.kind = "ok"
    /\ \E i, j \in 1..Len(Rows) :
           /\ i < j
           /\ Rows[i].courseId # Rows[j].courseId
           /\ call.tool = "get_grades" \/ Rows[i].dueDate = Rows[j].dueDate

\* C25: in a missing or grades result, a course has rows only if its
\* coursework listing and its submissions listing both succeeded; a course
\* whose submissions listing failed has none, whatever its coursework.
C25_BothListingsNeeded ==
    (pc = "done" /\ call.tool \in {"get_missing_assignments", "get_grades"}
        /\ response.kind = "ok") =>
        \A c \in Resolved :
            /\ RowsOf(c) # <<>> => cwReq[c] = "ok" /\ subReq[c] = "ok"
            /\ subReq[c] = "err" =>
                   \A i \in 1..Len(Rows) : Rows[i].courseId # c

\* A missing result after the coursework listing of a course with past-due
\* coursework succeeded and its submissions listing failed.
C25_Witness ==
    /\ Returned("get_missing_assignments")
    /\ \E c \in Resolved :
           /\ cwReq[c] = "ok" /\ subReq[c] = "err"
           /\ MissingOfCourse(CourseById(c), ListCourseWork(c, PublishedOnly),
                              <<>>, call.now) # <<>>

\* The identifiers of the coursework of course c that the missing view
\* lists at the instant now.
MissingIds(c, now) ==
    LET rows == MissingOfCourse(CourseById(c), ListCourseWork(c, PublishedOnly),
                                ListSubmissions(c), now)
    IN  {rows[i].assignmentId : i \in 1..Len(rows)}

\* The identifiers of the coursework of course c that the upcoming view
\* lists at the instant now for the lookahead days.
UpcomingIds(c, now, days) ==
    LET rows == UpcomingOfCourse(CourseById(c), ListCourseWork(c, PublishedOnly),
                                 now, Cutoff(now, days))
    IN  {rows[i].assignmentId : i \in 1..Len(rows)}

\* The PUBLISHED coursework of course c due on the calendar day of now to
\* which no submission is TURNED_IN or RETURNED.
UnsubmittedDueToday(c) ==
    {cw \in DueIn(c, 0) : \A sub \in Matching(c, cw.id) : sub.state \notin Submitted}

C27_UnknownToolIsMethodNotFound ==
    (pc = "done" /\ classroom /\ call.tool \notin Tools) =>
        /\ response = McpError("MethodNotFound", "Unknown tool")
        /\ issued = NoneIssued
        /\ listReq = "none" /\ cwReq = NoRequests /\ subReq = NoRequests

\* The course of the per-course view in flight.
Asked == call.courseId[1]

\* C28: a calculateGrade or getSubmissionFeedback call one of whose two
\* requests failed ends with the error InternalError, "Tool execution
\* failed"; when such a call returns a result, both its requests succeeded.
C28_PerCourseViewFails ==
    (pc = "done" /\ classroom
        /\ call.tool \in {"calculate_grade", "get_submission_feedback"}) =>
        /\ (cwReq[Asked] = "err" \/ subReq[Asked] = "err") => response = ToolFailed
        /\ response.kind = "ok" => cwReq[Asked] = "ok" /\ subReq[Asked] = "ok"

\* A calculateGrade call that failed after its coursework request succeeded
\* and its submissions request failed, the course holding graded work.
C28_Witness ==
    /\ pc = "done" /\ call.tool = "calculate_grade" /\ classroom
    /\ cwReq[Asked] = "ok" /\ subReq[Asked] = "err"
    /\ response = ToolFailed
    /\ GradeOfCourse(Asked, ListCourseWork(Asked, PublishedOnly),
                     ListSubmissions(Asked)).gradedAssignments > 0

\* The PUBLISHED coursework of course c whose due date is in the window of
\* the call in flight: a function of the coursework and the call alone.
InWindow(c) ==
    {cw \in Published(c) :
        /\ cw.dueDate # None
        /\ call.now <= DueInstant(cw.dueDate[1])
        /\ DueInstant(cw.dueDate[1]) <= call.now + Lookahead * DayLength}

\* C29: an upcoming call issues no submissions request, and its result is
\* determined by the coursework alone: it lists a PUBLISHED coursework of a
\* fetched course if and only if its due date is in the window, whatever
\* the submissions to it, it has one row for each, and no row holds a field
\* of a submission.
C29_UpcomingIgnoresSubmissions ==
    /\ (classroom /\ call.tool = "get_upcoming_assignments") =>
           \A c \in AllIds : issued.subs[c] = 0 /\ subReq[c] = "none"
    /\ Returned("get_upcoming_assignments") =>
           /\ \A c \in Fetched : \A cw \in Published(c) :
                  Listed(c, cw) <=> cw \in InWindow(c)
           /\ \A c \in Resolved :
                  Len(RowsOf(c)) = IF Failed(c) THEN 0 ELSE Cardinality(InWindow(c))
           /\ \A i \in 1..Len(Rows) :
                  DOMAIN Rows[i] = {"courseId", "courseName", "assignmentId", "title",
                                    "dueDate", "maxPoints"}

\* An upcoming result that lists a coursework to which a submission is
\* TURNED_IN and one to which a submission is RETURNED.
C29_Witness ==
    /\ Returned("get_upcoming_assignments")
    /\ \A state \in Submitted :
           \E c \in Fetched : \E cw \in Published(c) :
               /\ Listed(c, cw)
               /\ \E sub \in Matching(c, cw.id) : sub.state = state

\* The graded submissions of course c to a PUBLISHED coursework whose max
\* points are 0.
GradedOutOfZero(c) ==
    SelectSeq(upstream.subs[c], LAMBDA sub :
        /\ sub.assignedGrade # None
        /\ \E cw \in Published(c) : cw.id = sub.courseWorkId /\ cw.maxPoints = Some(0))

\* C30: in a grade calculation, every breakdown entry belongs to a PUBLISHED
\* coursework of the course (a submission to none is skipped), and every
\* graded submission to a coursework with max points 0 has an entry, with
\* its grade as earned, 0 as possible and no percentage; the entries are
\* what gradedAssignments counts and what totalEarned sums.
C30_ZeroMaxPointsCounted ==
    Returned("calculate_grade") =>
        LET entries == Rows.breakdown
            zeros   == GradedOutOfZero(Asked)
            ofZero  == SelectSeq(entries, LAMBDA e : e.possible = 0)
        IN  /\ \A k \in 1..Len(entries) :
                   \E cw \in Published(Asked) : cw.id = entries[k].assignmentId
            /\ Len(ofZero) = Len(zeros)
            /\ \A k \in 1..Len(zeros) :
                   /\ ofZero[k].assignmentId = zeros[k].courseWorkId
                   /\ ofZero[k].earned = zeros[k].assignedGrade[1]
                   /\ ofZero[k].percentage = None
            /\ Rows.gradedAssignments >= Len(zeros)
            /\ Rows.totalEarned >= SumSeq([k \in 1..Len(zeros) |-> zeros[k].assignedGrade[1]])
            /\ Rows.totalPossible =
                   SumSeq([k \in 1..Len(entries) |-> entries[k].possible])

\* A grade calculation over a course with a submission to no coursework and
\* a graded submission to a coursework with max points 0: the first is not
\* in the breakdown, totalEarned is positive and there is no overall
\* percentage.
C30_Witness ==
    /\ Returned("calculate_grade")
    /\ \E i \in 1..Len(upstream.subs[Asked]) :
           /\ upstream.subs[Asked][i].assignedGrade # None
           /\ \A cw \in Published(Asked) : cw.id # upstream.subs[Asked][i].courseWorkId
    /\ GradedOutOfZero(Asked) # <<>>
    /\ Rows.totalEarned > 0
    /\ Rows.overallPercentage = None

\* A grade calculation whose overall percentage is above 100, in tenths.
OverallAboveHundred ==
    /\ Returned("calculate_grade")
    /\ Rows.overallPercentage # None
    /\ Rows.overallPercentage[1] > 1000

====
